---- MODULE Spec2Model ----
(***************************************************************************)
(* A model of Copyless-Redis: the RESP frame decoder (src/src/redis.rs),   *)
(* the value model, dispatcher and encoders (src/src/types.rs) and the     *)
(* connection driver with its worker threads (src/src/main.rs).            *)
(*                                                                         *)
(* Bytes are the integers 0..255.  A buffer (BytesMut, Bytes, &[u8]) is a  *)
(* sequence of bytes; the code's positions are 0-based, so the byte at     *)
(* position p of buf is buf[p + 1].                                        *)
(***************************************************************************)
EXTENDS Integers, Sequences, FiniteSets, TLC

(***************************************************************************)
(* Byte values the code names.                                             *)
(***************************************************************************)
CR == 13
LF == 10
PLUS == 43
MINUS == 45
DOLLAR == 36
COLON == 58
STAR == 42
ZERO == 48
INVALID_UTF8 == 255

\* The size of the per-connection read array temp_buf.  The code's array has
\* 1024 bytes; the model's is scaled down, and holds every chunk read below
\* with room to spare.
MESSAGE_SIZE == 64

CRLF == <<CR, LF>>

(***************************************************************************)
(* Results.  Rust's Result<Option<(usize, T)>, RESPError> has the values   *)
(* Ok(None), Ok(Some((pos, val))) and Err(e); a call can also panic        *)
(* (index out of bounds, unimplemented!()), which unwinds the calling      *)
(* thread.  Panic is propagated like Err by every caller, as unwinding     *)
(* does.                                                                   *)
(***************************************************************************)
None == [kind |-> "None"]
Some(p, v) == [kind |-> "Some", pos |-> p, val |-> v]
Err(e) == [kind |-> "Err", err |-> e]
Panic(m) == [kind |-> "Panic", msg |-> m]

\* struct BufSplit(pub usize, pub usize): a half-open range of positions
BufSplit(s, e) == [start |-> s, end |-> e]

\* enum RedisBufSplit (the variants the decoder builds)
BufString(bfs) == [kind |-> "String", split |-> bfs]
BufInt(i) == [kind |-> "Int", int |-> i]
BufArray(vs) == [kind |-> "Array", elems |-> vs]
BufNullArray == [kind |-> "NullArray"]

\* `x as usize` for an i64 x: a negative x wraps to 2^64 + x.  The value is
\* kept as the pair (number of 2^64 added, x), 2^64 being past TLC's integers.
AsUsize(x) == [wraps |-> IF x < 0 THEN 1 ELSE 0, plus |-> x]

\* enum RESPError
IntParseFailure == [name |-> "IntParseFailure"]
UnknownStartingByte == [name |-> "UnknownStartingByte"]
NullBulkStringErr == [name |-> "NullBulkString"]
BadBulkStringSize == [name |-> "BadBulkStringSize"]
BadArraySize(n) == [name |-> "BadArraySize", size |-> n]

(***************************************************************************)
(* BufSplit::as_slice / as_bytes: &buf[self.0..self.1].  Slicing panics    *)
(* when the range is not inside the buffer; the decoder only slices ranges *)
(* it has scanned.                                                         *)
(***************************************************************************)
as_slice(bfs, buf) == SubSeq(buf, bfs.start + 1, bfs.end)

(***************************************************************************)
(* word: the range from pos up to the first CR at or after pos, and the    *)
(* position two past that CR.  find_cr is the while loop: it returns the   *)
(* position `end` stops at, or -1 where the loop returns Ok(None).  The    *)
(* byte after the CR only has to exist; it is not compared with LF.        *)
(***************************************************************************)
RECURSIVE find_cr(_, _)
find_cr(buf, end) ==
    IF buf[end + 1] # CR
    THEN IF Len(buf) <= end + 1 THEN -1 ELSE find_cr(buf, end + 1)
    ELSE end

\* word changed to return the word when the buffer ends at its CR
word_to_cr(buf, pos) ==
    IF Len(buf) <= pos THEN None
    ELSE LET end == find_cr(buf, pos) IN
         IF end = -1 THEN None
         ELSE Some(end + 2, BufSplit(pos, end))

word(buf, pos) ==
    IF Len(buf) <= pos THEN None
    ELSE LET end == find_cr(buf, pos) IN
         IF end = -1 THEN None
         ELSE IF end + 1 < Len(buf)
         THEN Some(end + 2, BufSplit(pos, end))
         ELSE None

IsDigit(b) == b \in ZERO..(ZERO + 9)

RECURSIVE DigitsValue(_)
DigitsValue(ds) ==
    IF ds = <<>> THEN 0
    ELSE 10 * DigitsValue(SubSeq(ds, 1, Len(ds) - 1)) + (ds[Len(ds)] - ZERO)

(***************************************************************************)
(* str::from_utf8(..) then s.parse::<i64>(): an optional sign, '+' or '-', *)
(* then one or more ASCII digits; anything else (an empty word, a sign     *)
(* alone, a byte that is no digit, bytes that are no UTF-8) is             *)
(* IntParseFailure.  The result is Some(0, value) or the Err.  Words of    *)
(* more than MaxDigits digits, where i64 overflow starts to matter, are    *)
(* outside the inputs enumerated below.                                    *)
(***************************************************************************)
parse_i64(w) ==
    LET signed == w # <<>> /\ w[1] \in {PLUS, MINUS}
        ds == IF signed THEN Tail(w) ELSE w IN
    IF ds = <<>> \/ \E k \in 1..Len(ds) : ~IsDigit(ds[k])
    THEN Err(IntParseFailure)
    ELSE Some(0, IF signed /\ w[1] = MINUS THEN 0 - DigitsValue(ds) ELSE DigitsValue(ds))

integer(buf, pos) ==
    LET w == word(buf, pos) IN
    IF w.kind = "Some"
    THEN LET i == parse_i64(as_slice(w.val, buf)) IN
         IF i.kind = "Err" THEN i ELSE Some(w.pos, i.val)
    ELSE w

\* bulk_string changed to stop at the payload's end, before its terminator
bulk_string_short(buf, pos) ==
    LET r == integer(buf, pos) IN
    IF r.kind # "Some" THEN r
    ELSE IF r.val = -1 THEN Err(NullBulkStringErr)
    ELSE IF r.val < 0 THEN Err(BadBulkStringSize)
    ELSE LET total_size == r.pos + r.val IN
         IF Len(buf) < total_size + 2 THEN None
         ELSE Some(total_size, BufString(BufSplit(r.pos, total_size)))

bulk_string(buf, pos) ==
    LET r == integer(buf, pos) IN
    IF r.kind # "Some" THEN r
    ELSE IF r.val = -1 THEN Err(NullBulkStringErr)
    ELSE IF r.val < 0 THEN Err(BadBulkStringSize)
    ELSE LET total_size == r.pos + r.val IN
         IF Len(buf) < total_size + 2 THEN None
         ELSE Some(total_size + 2, BufString(BufSplit(r.pos, total_size)))

simple_string(buf, pos) ==
    LET w == word(buf, pos) IN
    IF w.kind = "Some" THEN Some(w.pos, BufString(w.val)) ELSE w

resp_int(buf, pos) ==
    LET r == integer(buf, pos) IN
    IF r.kind = "Some" THEN Some(r.pos, BufInt(r.val)) ELSE r

RECURSIVE parse(_, _)
RECURSIVE array_loop(_, _, _, _)

\* array_loop changed to hand back the elements decoded so far when one is
\* incomplete
array_loop_partial(buf, curr_pos, remaining, values) ==
    IF remaining = 0 THEN Some(curr_pos, BufArray(values))
    ELSE LET r == parse(buf, curr_pos) IN
         IF r.kind = "Some"
         THEN array_loop(buf, r.pos, remaining - 1, Append(values, r.val))
         ELSE IF r.kind = "None" THEN Some(curr_pos, BufArray(values))
         ELSE r

\* the for loop of array: `remaining` more elements to decode from curr_pos
array_loop(buf, curr_pos, remaining, values) ==
    IF remaining = 0 THEN Some(curr_pos, BufArray(values))
    ELSE LET r == parse(buf, curr_pos) IN
         IF r.kind = "Some"
         THEN array_loop(buf, r.pos, remaining - 1, Append(values, r.val))
         ELSE r

array(buf, pos) ==
    LET r == integer(buf, pos) IN
    IF r.kind # "Some" THEN r
    ELSE IF r.val = -1 THEN Some(r.pos, BufNullArray)
    ELSE IF r.val >= 0 THEN array_loop(buf, r.pos, r.val, <<>>)
    ELSE Err(BadArraySize(AsUsize(r.val)))

\* parse changed to report an unknown marker as incomplete
parse_unknown_incomplete(buf, pos) ==
    IF buf = <<>> THEN None
    ELSE IF pos >= Len(buf) THEN Panic("index out of bounds")
    ELSE LET b == buf[pos + 1] IN
         IF b = PLUS THEN simple_string(buf, pos + 1)
         ELSE IF b = MINUS THEN Panic("not implemented")
         ELSE IF b = DOLLAR THEN bulk_string(buf, pos + 1)
         ELSE IF b = COLON THEN resp_int(buf, pos + 1)
         ELSE IF b = STAR THEN array(buf, pos + 1)
         ELSE None

\* buf[pos] panics when pos is not below buf.len()
parse(buf, pos) ==
    IF buf = <<>> THEN None
    ELSE IF pos >= Len(buf) THEN Panic("index out of bounds")
    ELSE LET b == buf[pos + 1] IN
         IF b = PLUS THEN simple_string(buf, pos + 1)
         ELSE IF b = MINUS THEN Panic("not implemented")
         ELSE IF b = DOLLAR THEN bulk_string(buf, pos + 1)
         ELSE IF b = COLON THEN resp_int(buf, pos + 1)
         ELSE IF b = STAR THEN array(buf, pos + 1)
         ELSE Err(UnknownStartingByte)


(***************************************************************************)
(* types.rs: the materialized values, the encoders and the dispatcher.     *)
(***************************************************************************)

\* String::from_utf8_lossy on one byte: an ASCII byte is itself, and the
\* byte 0xFF, which no UTF-8 sequence holds, becomes U+FFFD, the three bytes
\* EF BF BD.  Those three bytes in that order are valid UTF-8 and stay; the
\* buffers of the model hold no other byte above 0x7F.
lossy_byte(b) == IF b = INVALID_UTF8 THEN <<239, 191, 189>> ELSE <<b>>

RECURSIVE from_utf8_lossy(_)
from_utf8_lossy(b) ==
    IF b = <<>> THEN <<>> ELSE lossy_byte(Head(b)) \o from_utf8_lossy(Tail(b))

\* str::to_lowercase: 'A'..'Z' to 'a'..'z'; U+FFFD and the other bytes stay
to_lowercase(s) == [k \in 1..Len(s) |-> IF s[k] \in 65..90 THEN s[k] + 32 ELSE s[k]]

\* format!("{}", n) for n >= 0
RECURSIVE to_decimal(_)
to_decimal(n) ==
    IF n < 10 THEN <<ZERO + n>> ELSE Append(to_decimal(n \div 10), ZERO + (n % 10))

\* the command names and the fixed payloads, as bytes
echo == <<101, 99, 104, 111>>
ping == <<112, 105, 110, 103>>
set == <<115, 101, 116>>
get == <<103, 101, 116>>
PONG == <<80, 79, 78, 71>>
OK == <<79, 75>>

write_simple_string(b) == <<PLUS>> \o from_utf8_lossy(b) \o CRLF

write_bulk_string(b) ==
    LET s == from_utf8_lossy(b)
        size == Len(s) IN
    <<DOLLAR>> \o to_decimal(size) \o CRLF \o s \o CRLF

write_bulk_string_nil == <<DOLLAR, MINUS, ZERO + 1>> \o CRLF

\* enum RedisValue (the variants materialization builds); ValuePanic stands
\* for the panic of Bytes::slice on a range outside the buffer
RedisString(b) == [kind |-> "String", bytes |-> b]
RedisInt(i) == [kind |-> "Int", int |-> i]
RedisArray(vs) == [kind |-> "Array", elems |-> vs]
RedisNullArray == [kind |-> "NullArray"]
ValuePanic == [kind |-> "Panic"]

\* BufSplit::as_bytes: buf.slice(self.0..self.1)
as_bytes(bfs, buf) ==
    IF bfs.start <= bfs.end /\ bfs.end <= Len(buf)
    THEN RedisString(SubSeq(buf, bfs.start + 1, bfs.end))
    ELSE ValuePanic

RECURSIVE redis_value(_, _)
redis_value(v, buf) ==
    IF v.kind = "String" THEN as_bytes(v.split, buf)
    ELSE IF v.kind = "Int" THEN RedisInt(v.int)
    ELSE IF v.kind = "Array"
    THEN LET vs == [k \in 1..Len(v.elems) |-> redis_value(v.elems[k], buf)] IN
         IF \E k \in 1..Len(vs) : vs[k] = ValuePanic THEN ValuePanic ELSE RedisArray(vs)
    ELSE RedisNullArray

\* enum ReturnValue (the variants the dispatcher builds) and ReturnError
RetOk == [kind |-> "Ok"]
StringRes(b) == [kind |-> "StringRes", bytes |-> b]
Nil == [kind |-> "Nil"]
UnknownType == [name |-> "UnknownType"]

\* Result<ReturnValue, ReturnError>, a panic, or the table operation that the
\* dispatch is about to make under the lock
Returned(rv) == [kind |-> "Returned", val |-> rv]
NeedsLock(o) == [kind |-> "NeedsLock", op |-> o]

\* impl TryFrom<RedisValue> for Bytes
try_from(r) == IF r.kind = "String" THEN Returned(r.bytes) ELSE Err(UnknownType)

handle_string(b) ==
    LET name == to_lowercase(from_utf8_lossy(b)) IN
    IF name = echo THEN Returned(StringRes(write_simple_string(b)))
    ELSE IF name = ping THEN Returned(StringRes(write_simple_string(PONG)))
    ELSE Err(UnknownType)

\* a[1] of handle_array: indexing panics when the array has no second element
arg1(a) == IF Len(a) < 2 THEN Panic("index out of bounds") ELSE try_from(a[2])

\* the "set" arm up to state.lock(): key and value are both read from a[1]
handle_set(a) ==
    LET key == arg1(a)
        value == arg1(a) IN
    IF key.kind # "Returned" THEN key
    ELSE IF value.kind # "Returned" THEN value
    ELSE NeedsLock([name |-> "set",
                    key_s |-> from_utf8_lossy(key.val),
                    value_s |-> from_utf8_lossy(value.val)])

\* the "get" arm up to state.lock()
handle_get(a) ==
    LET key == arg1(a) IN
    IF key.kind # "Returned" THEN key
    ELSE NeedsLock([name |-> "get", key_s |-> from_utf8_lossy(key.val)])

handle_echo(a) ==
    LET response == arg1(a) IN
    IF response.kind # "Returned" THEN response
    ELSE Returned(StringRes(write_bulk_string(response.val)))

\* handle_array up to the point where it takes the lock
handle_array(a) ==
    IF a = <<>> THEN Panic("index out of bounds")
    ELSE LET head == try_from(a[1]) IN
         IF head.kind # "Returned" THEN head
         ELSE LET head_s == to_lowercase(from_utf8_lossy(head.val)) IN
              IF head_s = echo THEN handle_echo(a)
              ELSE IF head_s = ping THEN Returned(StringRes(write_simple_string(PONG)))
              ELSE IF head_s = set THEN handle_set(a)
              ELSE IF head_s = get THEN handle_get(a)
              ELSE Err(UnknownType)

parse_redis_value(value) ==
    IF value.kind = "String" THEN handle_string(value.bytes)
    ELSE IF value.kind = "Array" THEN handle_array(value.elems)
    ELSE Panic("not implemented")

\* insert changed to drop every other entry of the table
insert_alone(t, k, v) == [x \in {k} |-> v]

\* HashMap::insert and HashMap::get on the table, a function from the keys
\* present to their values
insert(t, k, v) == [x \in (DOMAIN t) \cup {k} |-> IF x = k THEN v ELSE t[x]]

\* set_result changed to answer Ok whatever insert returned
set_result_ok(t, o) == Returned(RetOk)

\* the match on state.lock().unwrap().insert(key_s, value_s)
set_result(t, o) ==
    IF o.key_s \in DOMAIN t
    THEN Returned(StringRes(write_bulk_string(t[o.key_s])))
    ELSE Returned(RetOk)

\* the match on state.lock().unwrap().get(&key_s)
get_result(t, o) ==
    IF o.key_s \in DOMAIN t
    THEN Returned(StringRes(write_bulk_string(t[o.key_s])))
    ELSE Returned(Nil)

\* response changed to write an error reply for a dispatch error
response_with_errors(d) ==
    IF d.kind # "Returned" THEN <<MINUS, 69, 82, 82>> \o CRLF
    ELSE IF d.val.kind = "StringRes" THEN d.val.bytes
    ELSE IF d.val.kind = "Ok" THEN write_simple_string(OK)
    ELSE IF d.val.kind = "Nil" THEN write_bulk_string_nil
    ELSE <<>>

\* handle_command: the bytes written to the stream for a dispatch result,
\* <<>> when the result is an error (only a log line is printed)
response(d) ==
    IF d.kind # "Returned" THEN <<>>
    ELSE IF d.val.kind = "StringRes" THEN d.val.bytes
    ELSE IF d.val.kind = "Ok" THEN write_simple_string(OK)
    ELSE IF d.val.kind = "Nil" THEN write_bulk_string_nil
    ELSE <<>>


(***************************************************************************)
(* main.rs: one worker thread per accepted connection, all sharing the     *)
(* table behind one Mutex.                                                 *)
(***************************************************************************)

\* connections accepted by main, each served by its own worker
NumConns == 2
Conns == 1..NumConns

\* most reads that return data, over all connections together
MaxReads == 3

VARIABLES
    table,      \* the HashMap behind the Mutex: key string -> value string
    lock,       \* the Mutex: 0 when free, else the connection whose worker holds it
    pc,         \* per connection, where its worker is: "read" (blocked in
                \* stream.read), "lock" (blocked in state.lock()), "locked"
                \* (holding the guard), "write" (in handle_command's match),
                \* "done" (handle_client returned) or "panicked"
    temp_buf,   \* per connection, temp_buf up to the highest position written
                \* so far; every position after it still holds its initial 0
    bytes_read, \* per connection, what the last stream.read returned
    pending,    \* per connection, the dispatch of the frame in hand: the
                \* table operation waited for, or the result to answer
    sent,       \* history: per connection, the byte chunks its reads returned
    decoded,    \* history: per connection, the result of parse for each read
    dispatched, \* history: per connection, the values given to handle_command
    results,    \* history: per connection, the result of each dispatch
    out,        \* history: per connection, the byte strings written to the stream
    sets,       \* history: the SET commands executed on the table, in order
    dbuf,       \* decoder runs: the buffer given to parse
    dpos,       \* decoder runs: the position given to parse
    dres,       \* decoder runs: what parse returned, NotRun before the call
    dval,       \* decoder runs: the frame materialized, NotRun before that
    denc        \* decoder runs: the materialized bytes encoded, NotRun before that

vars == <<table, lock, pc, temp_buf, bytes_read, pending, sent, decoded,
          dispatched, results, out, sets, dbuf, dpos, dres, dval, denc>>

serverVars == <<table, lock, pc, temp_buf, bytes_read, pending, sent, decoded,
                dispatched, results, out, sets>>

decoderVars == <<dbuf, dpos, dres, dval, denc>>

NotRun == [kind |-> "NotRun"]
Idle == [kind |-> "Idle"]
EmptyTable == [x \in {} |-> <<>>]

\* read_into changed to put the chunk after the bytes already in the array
read_into_after(t, chunk) == t \o chunk

\* stream.read(&mut temp_buf) returning Len(chunk) bytes: they overwrite the
\* start of temp_buf, and what lay after them stays
read_into(t, chunk) ==
    [k \in 1..(IF Len(t) > Len(chunk) THEN Len(t) ELSE Len(chunk)) |->
        IF k <= Len(chunk) THEN chunk[k] ELSE t[k]]

\* BytesMut::from(&temp_buf[..]): all MESSAGE_SIZE bytes of the array
whole_array(t) == [k \in 1..MESSAGE_SIZE |-> IF k <= Len(t) THEN t[k] ELSE 0]

\* handle_message up to handle_command's call of the dispatcher: the parse
\* result, the materialized value (Idle when there is none) and the dispatch
handle_message(buf) ==
    LET r == parse(buf, 0) IN
    IF r.kind # "Some" THEN [parsed |-> r, value |-> Idle, dispatch |-> Idle]
    ELSE LET data == SubSeq(buf, 1, r.pos)
             value == redis_value(r.val, data) IN
         [parsed |-> r, value |-> value,
          dispatch |-> IF value = ValuePanic THEN Panic("range out of bounds")
                       ELSE parse_redis_value(value)]

\* the test that ends handle_client's loop
next_pc(n) == IF n = 0 THEN "done" ELSE "read"

ReadsSoFar == LET RECURSIVE Sum(_)
                  Sum(c) == IF c = 0 THEN 0
                            ELSE Sum(c - 1) + Len(SelectSeq(sent[c], LAMBDA ch : ch # <<>>))
              IN Sum(NumConns)

(***************************************************************************)
(* One turn of handle_client's loop up to the point where the worker       *)
(* blocks or writes: stream.read returns chunk (<<>>: the peer has closed, *)
(* read returns 0), the whole array is copied into buf, and handle_message *)
(* decodes from position 0 and dispatches.                                 *)
(***************************************************************************)
Read(c, chunk) ==
    /\ pc[c] = "read"
    /\ Len(chunk) <= MESSAGE_SIZE
    /\ chunk # <<>> => ReadsSoFar < MaxReads
    /\ \E t \in {read_into(temp_buf[c], chunk)} :
       \E buf \in {whole_array(t)} :
       \E m \in {handle_message(buf)} :
          LET d == m.dispatch IN
          /\ temp_buf' = [temp_buf EXCEPT ![c] = t]
          /\ bytes_read' = [bytes_read EXCEPT ![c] = Len(chunk)]
          /\ sent' = [sent EXCEPT ![c] = Append(@, chunk)]
          /\ decoded' = [decoded EXCEPT ![c] = Append(@, m.parsed)]
          /\ dispatched' = [dispatched EXCEPT ![c] =
                               IF m.value = Idle THEN @ ELSE Append(@, m.value)]
          /\ pending' = [pending EXCEPT ![c] = d]
          /\ results' = [results EXCEPT ![c] =
                            IF d.kind \in {"Idle", "NeedsLock"} THEN @ ELSE Append(@, d)]
          /\ pc' = [pc EXCEPT ![c] =
                       IF m.parsed.kind = "Panic" \/ d.kind = "Panic" THEN "panicked"
                       ELSE IF d.kind = "Idle" THEN next_pc(Len(chunk))
                       ELSE IF d.kind = "NeedsLock" THEN "lock"
                       ELSE "write"]
    /\ UNCHANGED <<table, lock, out, sets>>
    /\ UNCHANGED decoderVars

\* Acquire changed to take the guard although another worker holds it
Acquire_unguarded(c) ==
    /\ pc[c] = "lock"
    /\ lock' = c
    /\ pc' = [pc EXCEPT ![c] = "locked"]
    /\ UNCHANGED <<table, temp_buf, bytes_read, pending, sent, decoded,
                   dispatched, results, out, sets>>
    /\ UNCHANGED decoderVars

\* state.lock(): blocks while another worker holds the guard
Acquire(c) ==
    /\ pc[c] = "lock"
    /\ lock = 0
    /\ lock' = c
    /\ pc' = [pc EXCEPT ![c] = "locked"]
    /\ UNCHANGED <<table, temp_buf, bytes_read, pending, sent, decoded,
                   dispatched, results, out, sets>>
    /\ UNCHANGED decoderVars

\* the history entry of a SET: its connection, its key, the third element of
\* its array (Idle when the array has none) and the connections whose workers
\* were blocked in state.lock() while it ran
set_entry(c, o, a) ==
    [conn |-> c, key_s |-> o.key_s,
     arg |-> IF Len(a) >= 3 /\ a[3].kind = "String"
             THEN Returned(from_utf8_lossy(a[3].bytes)) ELSE Idle,
     blocked |-> {d \in Conns : pc[d] = "lock"}]

\* the table operation and the match on its result; the guard, a temporary
\* of the match, is dropped when the match ends, before handle_array returns
Operate(c) ==
    /\ pc[c] = "locked"
    /\ lock = c
    /\ LET o == pending[c].op
           d == IF o.name = "set" THEN set_result(table, o) ELSE get_result(table, o) IN
       /\ table' = IF o.name = "set" THEN insert(table, o.key_s, o.value_s) ELSE table
       /\ sets' = IF o.name = "set"
                  THEN Append(sets, set_entry(c, o, dispatched[c][Len(dispatched[c])].elems))
                  ELSE sets
       /\ pending' = [pending EXCEPT ![c] = d]
       /\ results' = [results EXCEPT ![c] = Append(@, d)]
    /\ lock' = 0
    /\ pc' = [pc EXCEPT ![c] = "write"]
    /\ UNCHANGED <<temp_buf, bytes_read, sent, decoded, dispatched, out>>
    /\ UNCHANGED decoderVars

\* handle_command's match on the dispatch result, then the loop's test
Write(c) ==
    /\ pc[c] = "write"
    /\ LET bytes == response(pending[c]) IN
       out' = [out EXCEPT ![c] = IF bytes = <<>> THEN @ ELSE Append(@, bytes)]
    /\ pending' = [pending EXCEPT ![c] = Idle]
    /\ pc' = [pc EXCEPT ![c] = next_pc(bytes_read[c])]
    /\ UNCHANGED <<table, lock, temp_buf, bytes_read, sent, decoded,
                   dispatched, results, sets>>
    /\ UNCHANGED decoderVars

ServerInit ==
    /\ table = EmptyTable
    /\ lock = 0
    /\ pc = [c \in Conns |-> "read"]
    /\ temp_buf = [c \in Conns |-> <<>>]
    /\ bytes_read = [c \in Conns |-> 0]
    /\ pending = [c \in Conns |-> Idle]
    /\ sent = [c \in Conns |-> <<>>]
    /\ decoded = [c \in Conns |-> <<>>]
    /\ dispatched = [c \in Conns |-> <<>>]
    /\ results = [c \in Conns |-> <<>>]
    /\ out = [c \in Conns |-> <<>>]
    /\ sets = <<>>


(***************************************************************************)
(* What clients send: RESP encodings of frames and commands.               *)
(***************************************************************************)
RECURSIVE Flatten(_)
Flatten(ss) == IF ss = <<>> THEN <<>> ELSE Head(ss) \o Flatten(Tail(ss))

EncSimple(p) == <<PLUS>> \o p \o CRLF
EncInt(digits) == <<COLON>> \o digits \o CRLF
EncBulk(p) == <<DOLLAR>> \o to_decimal(Len(p)) \o CRLF \o p \o CRLF
EncArray(frames) == <<STAR>> \o to_decimal(Len(frames)) \o CRLF \o Flatten(frames)

\* a command: an array of bulk strings
Command(words) == EncArray([k \in 1..Len(words) |-> EncBulk(words[k])])

SET == <<83, 69, 84>>
GET == <<71, 69, 84>>
ECHO == <<69, 67, 72, 79>>
Ping == <<80, 105, 110, 103>>
FOO == <<70, 79, 79>>
KeyA == <<97>>
ValB == <<98>>
ValC == <<99>>
Hi == <<104, 105>>

SetAB == Command(<<SET, KeyA, ValB>>)
SetAC == Command(<<SET, KeyA, ValC>>)
GetA == Command(<<GET, KeyA>>)

\* the commands of the key-value scenarios
KVChunks == {SetAB, SetAC, GetA}

Init ==
    /\ ServerInit
    /\ dbuf = <<>>
    /\ dpos = 0
    /\ dres = NotRun
    /\ dval = NotRun
    /\ denc = NotRun

ReadKV(c) == \E chunk \in KVChunks : Read(c, chunk)

\* the peer closes: stream.read returns 0 and leaves temp_buf as it was
ReadEof(c) == Read(c, <<>>)

Next ==
    \E c \in Conns :
        \/ ReadKV(c)
        \/ ReadEof(c)
        \/ Acquire(c)
        \/ Operate(c)
        \/ Write(c)

\* two connections sending SET and GET commands on one key
Spec == Init /\ [][Next]_vars


(***************************************************************************)
(* The framing scenarios: connection 1 sends commands whole, two in one    *)
(* read, or one split over two reads, while connection 2 uses the table.   *)
(***************************************************************************)
PingCmd == Command(<<Ping>>)
EchoHi == Command(<<ECHO, Hi>>)
PingThenEcho == PingCmd \o EchoHi
SplitAt == 10
EchoHead == SubSeq(EchoHi, 1, SplitAt)
EchoTail == SubSeq(EchoHi, SplitAt + 1, Len(EchoHi))

FramingChunks == {PingCmd, EchoHi, PingThenEcho, EchoHead, EchoTail}
OtherChunks == {SetAB, GetA}

ReadFraming(c) ==
    \E chunk \in (IF c = 1 THEN FramingChunks ELSE OtherChunks) : Read(c, chunk)

NextFraming ==
    \E c \in Conns :
        \/ ReadFraming(c)
        \/ ReadEof(c)
        \/ Acquire(c)
        \/ Operate(c)
        \/ Write(c)

SpecFraming == Init /\ [][NextFraming]_vars

(***************************************************************************)
(* The error scenarios: connection 1 sends frames the decoder or the       *)
(* dispatcher rejects, while connection 2 uses the table.                  *)
(***************************************************************************)
Bang == <<33>> \o CRLF
IntFrame == EncInt(<<53>>)
EmptyArray == EncArray(<<>>)
NullArrayFrame == <<STAR, MINUS, 49>> \o CRLF
ErrorFrame == <<MINUS, 69>> \o CRLF
EchoNoArg == Command(<<ECHO>>)
GetNoArg == Command(<<GET>>)
SetNoArg == Command(<<SET>>)
SetKeyOnly == Command(<<SET, KeyA>>)
FooCmd == Command(<<FOO, KeyA>>)
IntHead == EncArray(<<EncInt(<<53>>)>>)

ErrorChunks == {Bang, IntFrame, EmptyArray, NullArrayFrame, ErrorFrame, EchoNoArg,
                GetNoArg, SetNoArg, SetKeyOnly, FooCmd, IntHead, PingCmd}

ReadErrors(c) ==
    \E chunk \in (IF c = 1 THEN ErrorChunks ELSE OtherChunks) : Read(c, chunk)

NextErrors ==
    \E c \in Conns :
        \/ ReadErrors(c)
        \/ ReadEof(c)
        \/ Acquire(c)
        \/ Operate(c)
        \/ Write(c)

SpecErrors == Init /\ [][NextErrors]_vars

(***************************************************************************)
(* The mixed scenarios: connection 1 sends commands of every kind, some    *)
(* that fail and some that are cut short, and sets key b, while connection *)
(* 2 sets key a.                                                           *)
(***************************************************************************)
KeyB == <<98>>
Hello == <<104, 101, 108, 108, 111>>
SetBC == Command(<<SET, KeyB, ValC>>)
EchoHello == Command(<<ECHO, Hello>>)
EchoMixedCase == Command(<<<<101, 67, 104, 79>>, Hi>>)
EchoBinary == Command(<<ECHO, <<INVALID_UTF8>>>>)
InlinePing == EncSimple(Ping)
InlineEcho == EncSimple(ECHO)
InlineHead == <<PLUS, 80>>
BulkHead == <<DOLLAR, 50>> \o CRLF \o <<104>>

MixedChunks == {SetBC, GetA, PingCmd, EchoHello, EchoMixedCase, EchoBinary,
                FooCmd, GetNoArg, InlinePing, InlineEcho, InlineHead, BulkHead}

ReadMixed(c) ==
    \E chunk \in (IF c = 1 THEN MixedChunks ELSE {SetAB}) : Read(c, chunk)

NextMixed ==
    \E c \in Conns :
        \/ ReadMixed(c)
        \/ ReadEof(c)
        \/ Acquire(c)
        \/ Operate(c)
        \/ Write(c)

SpecMixed == Init /\ [][NextMixed]_vars

(***************************************************************************)
(* Decoder runs: parse applied once to a buffer and a position.  The       *)
(* buffers are every prefix of every valid frame of a bounded set of       *)
(* simple strings, integers, bulk strings, arrays and nested arrays, alone *)
(* or after an earlier frame, and a few buffers that are no valid frame.   *)
(***************************************************************************)
MaxPayload == 2
MaxCount == 2

SeqsUpTo(S, n) == UNION {[1..k -> S] : k \in 0..n}

SimpleBytes == {97, INVALID_UTF8}
BulkBytes == {97, CR, INVALID_UTF8}
IntWords == {<<48>>, <<53>>, <<MINUS, 55>>, <<49, 50>>}

ValidScalars ==
    {EncSimple(p) : p \in SeqsUpTo(SimpleBytes, MaxPayload)}
    \cup {EncInt(d) : d \in IntWords}
    \cup {EncBulk(p) : p \in SeqsUpTo(BulkBytes, MaxPayload)}

\* what the arrays hold: scalars and arrays
Elements ==
    {EncSimple(<<97>>), EncInt(<<53>>), EncBulk(<<97, CR>>),
     EncArray(<<>>), EncArray(<<EncBulk(<<>>), EncInt(<<MINUS, 55>>)>>)}

ValidArrays == {EncArray(fs) : fs \in SeqsUpTo(Elements, MaxCount)} \cup {NullArrayFrame}

ValidFrames == ValidScalars \cup ValidArrays

Prefixes(f) == {SubSeq(f, 1, k) : k \in 0..Len(f)}

\* an earlier frame still in the buffer when the decode starts after it
Lead == EncSimple(<<97>>)

InvalidBuffers ==
    {Bang, ErrorFrame, <<0, 0>>,
     <<STAR, MINUS, 50>> \o CRLF, <<STAR, 120>> \o CRLF,
     <<STAR, MINUS, 55>> \o CRLF \o Lead,
     <<DOLLAR, MINUS, 49>> \o CRLF, <<DOLLAR, MINUS, 51>> \o CRLF,
     <<COLON>> \o CRLF, <<COLON, PLUS, 53>> \o CRLF, <<COLON, 53, 120>> \o CRLF}

\* bulk strings with a longer payload and with a length of two digits
Foo == <<102, 111, 111>>
TenBytes == [k \in 1..10 |-> 97]
LongerBulks == {EncBulk(Foo), EncBulk(TenBytes)}

DecodeInputs ==
    LET bufs == (UNION {Prefixes(f) : f \in ValidFrames}) \cup InvalidBuffers \cup LongerBulks IN
    {[buf |-> b, pos |-> 0] : b \in bufs}
    \cup {[buf |-> Lead \o b, pos |-> Len(Lead)] : b \in bufs}
    \cup {[buf |-> f \o Lead, pos |-> 0] : f \in ValidFrames \cup LongerBulks}

InitDecode ==
    /\ ServerInit
    /\ \E i \in DecodeInputs : dbuf = i.buf /\ dpos = i.pos
    /\ dres = NotRun
    /\ dval = NotRun
    /\ denc = NotRun

Decode ==
    /\ dres = NotRun
    /\ dres' = parse(dbuf, dpos)
    /\ UNCHANGED <<dbuf, dpos, dval, denc>>
    /\ UNCHANGED serverVars

\* the frame decoded is materialized as handle_message does it: against the
\* bytes before the next position, split off the buffer
Materialize ==
    /\ dres.kind = "Some"
    /\ dval = NotRun
    /\ dval' = redis_value(dres.val, SubSeq(dbuf, 1, dres.pos))
    /\ UNCHANGED <<dbuf, dpos, dres, denc>>
    /\ UNCHANGED serverVars

\* the bytes of a materialized String are encoded as a bulk string
Encode ==
    /\ dval.kind = "String"
    /\ denc = NotRun
    /\ denc' = write_bulk_string(dval.bytes)
    /\ UNCHANGED <<dbuf, dpos, dres, dval>>
    /\ UNCHANGED serverVars

NextDecode == Decode \/ Materialize \/ Encode

SpecDecode == InitDecode /\ [][NextDecode]_vars


(***************************************************************************)
(* Properties of the decoder, checked under SpecDecode.                    *)
(***************************************************************************)
IsProperPrefix(b, f) == Len(b) < Len(f) /\ b = SubSeq(f, 1, Len(b))

ProperPrefixOfValid(b) == \E f \in ValidFrames : IsProperPrefix(b, f)

\* C1: decoding a proper prefix of a valid frame from position 0 returns
\* Ok(None): no error, no frame, no panic.
C1_PrefixIsIncomplete ==
    (dres # NotRun /\ dpos = 0 /\ ProperPrefixOfValid(dbuf)) => dres = None


\* the decode starts at an array marker whose header holds a count >= 0
ArrayRun ==
    /\ dres # NotRun
    /\ dpos < Len(dbuf)
    /\ dbuf[dpos + 1] = STAR
    /\ integer(dbuf, dpos + 1).kind = "Some"
    /\ integer(dbuf, dpos + 1).val >= 0

\* the decodes of the elements, one after the other from position p, up to
\* the n-th or to the first that yields no frame
RECURSIVE ElementRuns(_, _, _)
ElementRuns(buf, p, n) ==
    IF n = 0 THEN <<>>
    ELSE LET r == parse(buf, p) IN
         IF r.kind = "Some" THEN <<r>> \o ElementRuns(buf, r.pos, n - 1) ELSE <<r>>

\* C6: array decoding is all-or-nothing.  With n the count of the header: if
\* an element decodes as incomplete the array decode is Ok(None); a frame is
\* returned only when all n elements decoded, and it is an Array of exactly
\* those n element frames in wire order, with the position just past the last
\* element (the end of the frame, for a valid array frame).
C6_ArrayAllOrNothing ==
    ArrayRun =>
        LET h == integer(dbuf, dpos + 1)
            runs == ElementRuns(dbuf, h.pos, h.val) IN
        /\ (\E k \in 1..Len(runs) : runs[k].kind = "None") => dres = None
        /\ dres.kind = "Some" =>
              /\ Len(runs) = h.val
              /\ \A k \in 1..Len(runs) : runs[k].kind = "Some"
              /\ dres.val.kind = "Array"
              /\ Len(dres.val.elems) = h.val
              /\ \A k \in 1..h.val : dres.val.elems[k] = runs[k].val
              /\ dres.pos = IF h.val = 0 THEN h.pos ELSE runs[h.val].pos
        /\ SubSeq(dbuf, dpos + 1, Len(dbuf)) \in ValidArrays =>
              dres.kind = "Some" /\ dres.pos = Len(dbuf)

\* an array of two or more elements whose first element is complete and whose
\* second is not
C6_Witness ==
    /\ ArrayRun
    /\ integer(dbuf, dpos + 1).val >= 2
    /\ LET h == integer(dbuf, dpos + 1)
           runs == ElementRuns(dbuf, h.pos, h.val) IN
       Len(runs) = 2 /\ runs[1].kind = "Some" /\ runs[2].kind = "None"
    /\ dres = None


(***************************************************************************)
(* Properties of SET and GET, checked under Spec.                          *)
(***************************************************************************)
\* the SET commands executed so far on key k, in order
SetsOn(k) == SelectSeq(sets, LAMBDA e : e.key_s = k)

\* worker c is making its table operation, a GET or a SET, in this step
Operates(c, name) ==
    /\ pc[c] = "locked"
    /\ pc'[c] = "write"
    /\ pending[c].op.name = name

\* C2: a GET of k answers the bulk-string encoding of the value v of the last
\* SET k v executed on the table, by any connection, and "$-1\r\n" when no
\* SET of k was executed.
C2_GetAnswersLastSetValue ==
    [][\A c \in Conns :
         Operates(c, "get") =>
            LET before == SetsOn(pending[c].op.key_s) IN
            response(pending'[c]) =
               IF before = <<>> THEN <<DOLLAR, MINUS, 49>> \o CRLF
               ELSE EncBulk(before[Len(before)].arg.val)]_vars

\* C3: when two workers have executed SET on the same key k at the same time
\* (one waited for the lock while the other held it) with values v1 and v2,
\* and both have finished, k holds v1 or v2.
C3_ConcurrentSetsStoreOneValue ==
    (/\ Len(sets) = 2
     /\ sets[1].key_s = sets[2].key_s
     /\ sets[2].conn \in sets[1].blocked
     /\ \A c \in Conns : pc[c] \in {"read", "done"})
    => /\ sets[1].key_s \in DOMAIN table
       /\ Returned(table[sets[1].key_s]) \in {sets[1].arg, sets[2].arg}

\* C7: a SET of a key that holds a value returns StringRes of the bulk-string
\* encoding of that value, the one stored just before this SET; a SET of a key
\* the table does not hold returns Ok.
C7_SetReturnsPreviousValue ==
    [][\A c \in Conns :
         Operates(c, "set") =>
            LET k == pending[c].op.key_s IN
            pending'[c] = IF k \in DOMAIN table
                          THEN Returned(StringRes(EncBulk(table[k])))
                          ELSE Returned(RetOk)]_vars

\* a SET by one connection has returned the value an earlier SET by the other
\* connection stored
C7_Witness ==
    \E c \in Conns :
        /\ pc[c] = "write"
        /\ pending[c].kind = "Returned"
        /\ pending[c].val.kind = "StringRes"
        /\ Len(sets) = 2
        /\ sets[2].conn = c
        /\ sets[1].conn # c


(***************************************************************************)
(* Properties of one connection's framing, checked under SpecFraming.      *)
(***************************************************************************)
\* the bytes connection c has sent so far
Stream(c) == Flatten(sent[c])

\* the complete frames at the start of a byte string, in order
RECURSIVE FramesOf(_)
FramesOf(bytes) ==
    IF bytes = <<>> THEN <<>>
    ELSE LET r == parse(bytes, 0) IN
         IF r.kind = "Some"
         THEN <<SubSeq(bytes, 1, r.pos)>> \o FramesOf(SubSeq(bytes, r.pos + 1, Len(bytes)))
         ELSE <<>>

\* every read of c returned one or more whole frames (or 0 bytes)
WholeFrameReads(c) ==
    \A i \in 1..Len(sent[c]) : Flatten(FramesOf(sent[c][i])) = sent[c][i]

\* every read of c returned exactly one whole frame (or 0 bytes)
OneFramePerRead(c) ==
    \A i \in 1..Len(sent[c]) : sent[c][i] # <<>> => FramesOf(sent[c][i]) = <<sent[c][i]>>

\* the answer to a command that does not use the table
Answer(f) == IF f = PingCmd THEN EncSimple(PONG) ELSE EncBulk(Hi)

\* the value a command frame materializes to
ValueOf(f) == redis_value(parse(f, 0).val, f)

\* the commands of c are dispatched and answered in the order sent, none
\* skipped: whenever the worker is through with what it has read, each of the
\* frames sent has been dispatched and answered, the k-th value dispatched is
\* the k-th frame sent, and the k-th response written answers it
InOrder(c) ==
    LET frames == FramesOf(Stream(c)) IN
    /\ \A k \in 1..Len(frames) :
          /\ k <= Len(dispatched[c]) => dispatched[c][k] = ValueOf(frames[k])
          /\ (k <= Len(out[c]) /\ frames[k] \in {PingCmd, EchoHi}) =>
                out[c][k] = Answer(frames[k])
    /\ pc[c] \in {"read", "done"} =>
          Len(dispatched[c]) >= Len(frames) /\ Len(out[c]) >= Len(frames)

\* C4 as claimed: the commands of a connection are dispatched and answered in
\* the order sent, whether each arrives in its own read or several arrive in
\* one read.
C4_InOrderAnyReads == \A c \in Conns : WholeFrameReads(c) => InOrder(c)

\* C4 amended: the commands of a connection are dispatched and answered in
\* the order sent when each arrives whole in a read of its own.
C4_InOrderOneFramePerRead == \A c \in Conns : OneFramePerRead(c) => InOrder(c)

\* connection 1 sent two different commands, each in its own read, and both
\* are answered
C4_Witness ==
    /\ Len(sent[1]) = 2
    /\ OneFramePerRead(1)
    /\ sent[1][1] = EchoHi
    /\ sent[1][2] = PingCmd
    /\ Len(out[1]) = 2
    /\ pc[1] = "read"

\* the frames c sent arrived split: the stream is whole frames, but some read
\* ended inside a frame
SplitDelivery(c) ==
    /\ Flatten(FramesOf(Stream(c))) = Stream(c)
    /\ ~WholeFrameReads(c)

\* C5: a command split over two or more reads is decoded as incomplete until
\* its last byte has arrived, and is then dispatched and answered as if it had
\* arrived in one read.
C5_SplitFrameIsAnswered ==
    \A c \in Conns :
        (SplitDelivery(c) /\ pc[c] \in {"read", "done"}) =>
            /\ decoded[c][1] = None
            /\ InOrder(c)


(***************************************************************************)
(* Properties of failing frames, checked under SpecErrors.                 *)
(***************************************************************************)
Markers == {PLUS, DOLLAR, COLON, STAR, MINUS}

\* the last decode of connection c ended in a parse error or a panic
DecodeFailed(c) ==
    /\ decoded[c] # <<>>
    /\ decoded[c][Len(decoded[c])].kind \in {"Err", "Panic"}

\* C8: a buffer that starts with a byte that is no marker decodes to the
\* error UnknownStartingByte; and a worker whose decode failed or that has
\* panicked does not hold the table lock, which is free or held by a worker
\* that is about to make its table operation and release it, so the other
\* workers go on.
C8_UnknownMarkerIsContained ==
    /\ \A c \in Conns :
          (decoded[c] # <<>> /\ whole_array(temp_buf[c])[1] \notin Markers) =>
             decoded[c][Len(decoded[c])] = Err(UnknownStartingByte)
    /\ \A c \in Conns :
          (pc[c] = "panicked" \/ (DecodeFailed(c) /\ pc[c] \in {"read", "done"})) =>
             lock # c
    /\ lock # 0 => pc[lock] = "locked"

\* connection 1 met an unknown marker and, at its next frame, panicked; the
\* worker of connection 2 holds the lock for a command it read
C8_Witness ==
    /\ \E i \in 1..Len(decoded[1]) : decoded[1][i] = Err(UnknownStartingByte)
    /\ pc[1] = "panicked"
    /\ pc[2] = "locked"
    /\ lock = 2

\* C9: dispatching a value that is neither a String nor an Array returns a
\* dispatch error (the dispatch does not panic).
C9_OtherVariantsAreErrors ==
    \A c \in Conns : \A k \in 1..Len(results[c]) :
        dispatched[c][k].kind \notin {"String", "Array"} => results[c][k].kind = "Err"

\* the head of a command array, lower-cased; <<>> when it has none
HeadOf(a) ==
    IF a # <<>> /\ a[1].kind = "String" THEN to_lowercase(from_utf8_lossy(a[1].bytes))
    ELSE <<>>

\* an array with too few elements for its command, or with an unknown head
Malformed(a) ==
    \/ a = <<>>
    \/ HeadOf(a) \in {echo, get} /\ Len(a) < 2
    \/ HeadOf(a) = set /\ Len(a) < 3
    \/ HeadOf(a) \notin {echo, ping, set, get}

\* C10: dispatching an array with too few elements for its command, or with
\* an unknown head, returns a dispatch error (the dispatch does not panic and
\* makes no table operation).
C10_MalformedArraysAreErrors ==
    \A c \in Conns : \A k \in 1..Len(results[c]) :
        (dispatched[c][k].kind = "Array" /\ Malformed(dispatched[c][k].elems)) =>
            results[c][k].kind = "Err"

(***************************************************************************)
(* Properties of the table lock, checked under Spec.                       *)
(***************************************************************************)
\* the workers that hold the guard of the table's Mutex
Holders == {c \in Conns : pc[c] = "locked"} \cup (IF lock = 0 THEN {} ELSE {lock})

\* worker c is in stream.read or stream.write, or has left handle_client
InStream(c) == pc[c] \in {"read", "write", "done", "panicked"}

\* at most one worker holds the guard, no holder is in a stream call, and a
\* worker blocked in state.lock() waits only for a holder whose table
\* operation can go ahead without any step of another worker
LockState ==
    /\ Cardinality(Holders) <= 1
    /\ \A c \in Conns : InStream(c) => c \notin Holders
    /\ \A c \in Conns :
          pc[c] = "lock" => (lock = 0 \/ (pc[lock] = "locked" /\ ENABLED Operate(lock)))

\* a step that reads or changes the table is made by the one holder of the
\* guard, and that step releases the guard
LockStep ==
    /\ table' # table => \E c \in Conns : Operates(c, "set")
    /\ \A c \in Conns :
          (Operates(c, "get") \/ Operates(c, "set")) =>
             /\ Holders = {c}
             /\ lock' = 0
             /\ c \notin Holders'

\* C11: at most one worker holds the table lock at any time; every GET and
\* SET makes its table access while holding it and releases it before the
\* dispatch returns; no worker holds the lock while it is in a stream read or
\* write, so a waiting worker never waits for a connection that is stalled.
C11_LockDiscipline == []LockState /\ [][LockStep]_vars

\* the worker of connection 1 holds the lock and the worker of connection 2
\* is blocked waiting for it
C11_Witness ==
    /\ lock = 1
    /\ pc[1] = "locked"
    /\ pc[2] = "lock"

(***************************************************************************)
(* Properties of the commands' effects, checked under SpecMixed.           *)
(***************************************************************************)
\* worker c makes this step
Actor(c) == pc'[c] # pc[c] \/ sent'[c] # sent[c]

\* the last element of a non-empty sequence
Last(q) == q[Len(q)]

\* the value is a SET command
IsSet(v) == v.kind = "Array" /\ HeadOf(v.elems) = set

\* the table key a SET command names, the string of its second element
KeyOf(v) == from_utf8_lossy(v.elems[2].bytes)

\* C12: only SET changes the table, and only the entry of its own key: a step
\* that changes the table is made by a worker whose command in hand is a SET
\* that does not end in a dispatch error, and it leaves every other key as it
\* was; so the steps of GET, PING and ECHO commands and of commands that end
\* in an error leave the whole table unchanged.
C12_OnlySetChangesItsKey ==
    [][table' # table =>
          /\ \E c \in Conns : Actor(c)
          /\ \A c \in Conns :
                Actor(c) =>
                   /\ dispatched'[c] # <<>>
                   /\ IsSet(Last(dispatched'[c]))
                   /\ results'[c] # <<>>
                   /\ Last(results'[c]).kind = "Returned"
                   /\ \A k \in (DOMAIN table \cup DOMAIN table') \ {KeyOf(Last(dispatched'[c]))} :
                         /\ k \in DOMAIN table
                         /\ k \in DOMAIN table'
                         /\ table'[k] = table[k]]_vars

\* connection 1 has set the second key while the first key holds the value
\* connection 2 set, and has had a command end in a dispatch error
C12_Witness ==
    /\ DOMAIN table = {KeyA, KeyB}
    /\ Len(sets) = 2
    /\ sets[1].conn = 2
    /\ sets[2].conn = 1
    /\ sets[2].key_s = KeyB
    /\ \E k \in 1..Len(results[1]) : results[1][k] = Err(UnknownType)

\* the dispatches of c that returned Ok(..), in order
Successes(c) == SelectSeq(results[c], LAMBDA r : r.kind = "Returned")

\* b is "$<n>\r\n", n bytes and "\r\n"
IsBulkString(b) ==
    \E n \in 0..Len(b) :
        LET h == <<DOLLAR>> \o to_decimal(n) \o CRLF IN
        /\ Len(b) = Len(h) + n + 2
        /\ SubSeq(b, 1, Len(h)) = h
        /\ SubSeq(b, Len(b) - 1, Len(b)) = CRLF

NilBulk == <<DOLLAR, MINUS, 49>> \o CRLF

\* b is "+<name>\r\n" for a spelling of ECHO in any case
IsEchoName(b) ==
    /\ Len(b) = 7
    /\ b[1] = PLUS
    /\ to_lowercase(SubSeq(b, 2, 5)) = echo
    /\ SubSeq(b, 6, 7) = CRLF

\* the responses the claim names
ClaimedResponse(b) == b = EncSimple(OK) \/ IsBulkString(b) \/ b = NilBulk

\* and those of PING and of the inline ECHO
SimpleResponse(b) == b = EncSimple(PONG) \/ IsEchoName(b)

\* one response for each dispatch of c that returned Ok(..), in order, each
\* the encoding of what was returned and each of a kind Allowed admits, and
\* nothing written for anything else: a dispatch that returned Err or
\* panicked, a decode that failed or was incomplete
OneResponseEach(c, Allowed(_)) ==
    LET oks == Successes(c)
        due == IF pc[c] = "write" /\ pending[c].kind = "Returned" THEN 1 ELSE 0 IN
    /\ Len(out[c]) = Len(oks) - due
    /\ \A i \in 1..Len(out[c]) :
          /\ Allowed(out[c][i])
          /\ oks[i].val.kind = "Ok" => out[c][i] = EncSimple(OK)
          /\ oks[i].val.kind = "Nil" => out[c][i] = NilBulk
          /\ oks[i].val.kind = "StringRes" => out[c][i] = oks[i].val.bytes

EchoHeads == {ECHO, <<101, 67, 104, 79>>}
EchoArgs == {Hi, Hello, <<INVALID_UTF8>>}

\* the read in hand of worker c returned the command ECHO arg
EchoInHand(c, arg) ==
    /\ sent[c] # <<>>
    /\ bytes_read[c] > 0
    /\ \E head \in EchoHeads : Last(sent[c]) = Command(<<head, arg>>)

\* C17: a read that returns the array command ECHO arg, the head in any case,
\* is answered with exactly "$<len(arg)>\r\n<arg>\r\n": the worker goes on to
\* write, and what it writes is that one response and nothing else.
C17_EchoAnswersItsArgument ==
    [][\A c \in Conns : \A arg \in EchoArgs :
          /\ (Actor(c) /\ EchoInHand(c, arg)') => (pc[c] = "read" => pc'[c] = "write")
          /\ (Actor(c) /\ EchoInHand(c, arg) /\ pc[c] = "write") =>
                out'[c] = Append(out[c], EncBulk(arg))]_vars

\* the SET commands worker c has executed on the table
SetsBy(c) == SelectSeq(sets, LAMBDA e : e.conn = c)

\* the complete frames connection c has sent that are SET commands
SetFrames(c) == SelectSeq(FramesOf(Stream(c)), LAMBDA f : IsSet(ValueOf(f)))

\* C18: every frame a client sends is dispatched at most once: over any
\* sequence of reads, the read that returns 0 bytes at the close included, a
\* connection has no more dispatches than complete frames sent, and no more
\* SETs executed on the table than SET frames sent.  Checked under Spec.
C18_DispatchedAtMostOnce ==
    \A c \in Conns :
        /\ Len(dispatched[c]) <= Len(FramesOf(Stream(c)))
        /\ Len(SetsBy(c)) <= Len(SetFrames(c))

\* the bytes connection c has sent and no decode has consumed, at the decode
\* of its i-th read: what the (i-1)-th decode left, then the i-th chunk
RECURSIVE Unconsumed(_, _)
Unconsumed(c, i) ==
    IF i = 0 THEN <<>>
    ELSE LET before == Unconsumed(c, i - 1)
             used == IF i > 1 /\ decoded[c][i - 1].kind = "Some"
                     THEN decoded[c][i - 1].pos ELSE 0
             left == IF used >= Len(before) THEN <<>>
                     ELSE SubSeq(before, used + 1, Len(before)) IN
         left \o sent[c][i]

\* C19: the buffer given to the decoder after a read is exactly the bytes
\* the client has sent and that are not yet consumed, so no decoded frame
\* reaches past them into zero padding of the read array or into bytes of an
\* earlier read.  Checked under SpecMixed.
C19_BufferIsUnconsumedInput ==
    \A c \in Conns :
        sent[c] # <<>> =>
           /\ whole_array(temp_buf[c]) = Unconsumed(c, Len(sent[c]))
           /\ \A i \in 1..Len(decoded[c]) :
                 decoded[c][i].kind = "Some" => decoded[c][i].pos <= Len(Unconsumed(c, i))

(***************************************************************************)
(* Properties of decoding, materializing and encoding, checked under       *)
(* SpecDecode.                                                             *)
(***************************************************************************)
\* the payloads without a carriage return
PlainPayloads == SeqsUpTo(BulkBytes \ {CR}, MaxPayload)

\* C13: for every payload p without a carriage return, decoding EncBulk(p)
\* from position 0, materializing the frame and encoding the materialized
\* bytes with write_bulk_string gives EncBulk(p) again.
C13_BulkRoundTrip ==
    (/\ dpos = 0
     /\ dbuf \in {EncBulk(p) : p \in PlainPayloads}
     /\ denc # NotRun)
    => denc = dbuf

\* the bytes of buf from position p on start with the bytes f
StartsWith(buf, p, f) == Len(buf) >= p + Len(f) /\ SubSeq(buf, p + 1, p + Len(f)) = f

BulkPayloads == SeqsUpTo(BulkBytes, MaxPayload) \cup {Foo, TenBytes}

\* C14: decoding a complete bulk string "$<n>\r\n<payload>\r\n" that starts at
\* position p returns a String frame whose offsets cover the n payload bytes,
\* start just past the terminator of the length line and end = start + n, and
\* the next position end + 2; "$3\r\nfoo\r\n" at position 0 gives
\* (9, String(4, 7)).
C14_BulkOffsets ==
    /\ \A payload \in BulkPayloads :
          (dres # NotRun /\ StartsWith(dbuf, dpos, EncBulk(payload))) =>
             LET n == Len(payload)
                 start == dpos + 1 + Len(to_decimal(n)) + 2
                 end == start + n IN
             /\ dres = Some(end + 2, BufString(BufSplit(start, end)))
             /\ as_slice(dres.val.split, dbuf) = payload
    /\ (dres # NotRun /\ dpos = 0 /\ dbuf = <<DOLLAR, 51, CR, LF, 102, 111, 111, CR, LF>>) =>
          dres = Some(9, BufString(BufSplit(4, 7)))

\* "$3\r\nfoo\r\n" has been decoded from position 0
C14_Witness ==
    /\ dpos = 0
    /\ dbuf = <<DOLLAR, 51, CR, LF, 102, 111, 111, CR, LF>>
    /\ dres = Some(9, BufString(BufSplit(4, 7)))

\* the decode starts at an array marker whose header holds a count < 0
NegativeCount ==
    /\ dres # NotRun
    /\ dpos < Len(dbuf)
    /\ dbuf[dpos + 1] = STAR
    /\ integer(dbuf, dpos + 1).kind = "Some"
    /\ integer(dbuf, dpos + 1).val < 0

\* C16: an array header with count -1 decodes to NullArray with the next
\* position just past the header; one with any other negative count c decodes
\* to the error BadArraySize carrying c; a negative count never gives an Array
\* frame or incomplete.
C16_NegativeArrayCounts ==
    NegativeCount =>
        LET h == integer(dbuf, dpos + 1) IN
        IF h.val = -1 THEN dres = Some(h.pos, BufNullArray)
        ELSE /\ dres.kind = "Err"
             /\ dres.err.name = "BadArraySize"
             /\ dres.err.size.wraps = 0
             /\ dres.err.size.plus = h.val

\* every offset pair inside a frame, at any depth
RECURSIVE Splits(_)
Splits(v) ==
    IF v.kind = "String" THEN {v.split}
    ELSE IF v.kind = "Array" THEN UNION {Splits(v.elems[k]) : k \in 1..Len(v.elems)}
    ELSE {}

\* C20: when parse(buf, pos) returns Some((next, frame)), pos < next <=
\* len(buf) and every offset pair (start, end) inside frame, at any depth, has
\* pos < start <= end <= next; so materializing the frame against the first
\* next bytes split off the buffer reads inside them and gives the same
\* value as materializing it against the whole buffer.
C20_OffsetsInsideFrame ==
    /\ dres.kind = "Some" =>
          /\ dpos < dres.pos
          /\ dres.pos <= Len(dbuf)
          /\ \A bfs \in Splits(dres.val) :
                dpos < bfs.start /\ bfs.start <= bfs.end /\ bfs.end <= dres.pos
    /\ dval # NotRun =>
          /\ dval # ValuePanic
          /\ dval = redis_value(dres.val, dbuf)

\* a nested array decoded after an earlier frame and materialized
C20_Witness ==
    /\ dpos = Len(Lead)
    /\ dres.kind = "Some"
    /\ dres.pos = Len(dbuf)
    /\ Cardinality(Splits(dres.val)) = 2
    /\ dval.kind = "Array"
    /\ Len(dval.elems) = 2
    /\ dval.elems[1] = RedisArray(<<RedisString(<<>>), RedisInt(-7)>>)
    /\ dval.elems[2] = RedisString(<<97, CR>>)

====
